---- MODULE Spec2Model ----
(***************************************************************************)
(* Model of pyreleaser's command line (src/pyreleaser/cli.py): the         *)
(* `create` release flow and the `upload` flow, with the text functions    *)
(* they use.  Text is a sequence of one-character strings, so that         *)
(* splitting, integer parsing, formatting and pattern matching are         *)
(* computed the way the Python code computes them.                         *)
(***************************************************************************)
EXTENDS Integers, Sequences, FiniteSets, TLC

VARIABLES
    cmd,          \* the subcommand of `main` being run: "create" or "upload"
    pc,           \* position in the running command
    version,      \* create: the VERSION argument (text)
    push,         \* create: the --push flag
    only_on,      \* create: the --only-on option (None when absent)
    new_version,  \* create: local new_version (text)
    tag_name,     \* create: local tag_name (text)
    err,          \* the exception that ended the command ("" while none)
    effects,      \* the side-effecting steps executed so far, with outcome
    branch,       \* git: current branch
    clean,        \* git: diff-index --quiet HEAD exits 0
    local_refs,   \* git: lines of `git show-ref --tags`
    remote_refs,  \* git: lines of `git ls-remote --tags origin`
    setup_exists, \* the file setup.py exists
    setup_py,     \* the lines of setup.py
    declared,     \* the output of `python setup.py --version` (text)
    dry_run,      \* upload: the --dry-run flag
    dist          \* upload: the files of the dist directory

vars == <<cmd, pc, version, push, only_on, new_version, tag_name, err, effects,
          branch, clean, local_refs, remote_refs, setup_exists, setup_py,
          declared, dry_run, dist>>

createVars == <<version, push, only_on>>
gitVars == <<branch, clean, local_refs, remote_refs>>
uploadVars == <<dry_run, dist>>

(***************************************************************************)
(* Bounds of the model.                                                    *)
(***************************************************************************)
MaxArgLen == 4   \* longest VERSION argument enumerated character by character
MaxParts == 4    \* most components of a declared version
MaxDigits == 2   \* most digits of one component of a declared version
MaxLines == 3    \* most lines of setup.py in the rewrite specification

(***************************************************************************)
(* Text helpers: Python's str.split('.'), int(), str(), '.'.join and       *)
(* str.lstrip('v').                                                        *)
(***************************************************************************)
None == "<None>"

Digits == <<"0", "1", "2", "3", "4", "5", "6", "7", "8", "9">>

IsDigit(c) == \E i \in 1..10 : Digits[i] = c

DigitVal(c) == (CHOOSE i \in 1..10 : Digits[i] = c) - 1

\* int(s) for a text of decimal digits
RECURSIVE int(_)
int(s) ==
    IF Len(s) = 0 THEN 0
    ELSE int(SubSeq(s, 1, Len(s) - 1)) * 10 + DigitVal(s[Len(s)])

\* str(n) for a natural number
RECURSIVE str(_)
str(n) ==
    IF n < 10 THEN <<Digits[n + 1]>>
    ELSE str(n \div 10) \o <<Digits[(n % 10) + 1]>>

\* s.split('.'): the pieces between the dots, [''] for the empty text
RECURSIVE split(_)
split(s) ==
    IF \A i \in 1..Len(s) : s[i] # "."
    THEN <<s>>
    ELSE LET d == CHOOSE i \in 1..Len(s) :
                      s[i] = "." /\ \A j \in 1..(i - 1) : s[j] # "."
         IN  <<SubSeq(s, 1, d - 1)>> \o split(SubSeq(s, d + 1, Len(s)))

\* '.'.join(map(str, ns))
RECURSIVE join(_)
join(ns) ==
    IF Len(ns) = 0 THEN <<>>
    ELSE IF Len(ns) = 1 THEN str(ns[1])
    ELSE str(ns[1]) \o <<".">> \o join(Tail(ns))

\* s.lstrip('v')
RECURSIVE lstrip_v(_)
lstrip_v(s) ==
    IF Len(s) > 0 /\ s[1] = "v" THEN lstrip_v(Tail(s)) ELSE s

\* re.search(r'^[v]*[0-9]+\.[0-9]+[\.\[0-9\]+]*$', s): any number of 'v',
\* digits, a dot, digits, then any characters of the class  . [ 0-9 ] +
\* up to the end of the text (or up to a final newline, where $ also matches)
InTailClass(c) == IsDigit(c) \/ c \in {".", "[", "]", "+"}

version_re(s) ==
    \E e \in {Len(s)} \cup {n \in {Len(s) - 1} : Len(s) > 0 /\ s[Len(s)] = "\n"} :
    \E i \in 0..e : \E j \in (i + 1)..e : \E k \in (j + 2)..e :
        /\ \A x \in 1..i : s[x] = "v"
        /\ \A x \in (i + 1)..j : IsDigit(s[x])
        /\ s[j + 1] = "."
        /\ \A x \in (j + 2)..k : IsDigit(s[x])
        /\ \A x \in (k + 1)..e : InTailClass(s[x])

MAJOR == <<"m", "a", "j", "o", "r">>
MINOR == <<"m", "i", "n", "o", "r">>
PATCH == <<"p", "a", "t", "c", "h">>

(***************************************************************************)
(* update_version: the bumped version, or the exception the indexing       *)
(* raises when the current version has too few components.                 *)
(***************************************************************************)
Raised(e) == [exc |-> e, value |-> <<>>]
Returned(v) == [exc |-> "", value |-> v]

\* a major bump that forgets to reset the minor component
bump_major_keeps_minor(split_version) ==
    Returned(join(<<int(split_version[1]) + 1,
                    IF Len(split_version) < 2 THEN 0 ELSE int(split_version[2]),
                    0>>))

\* the 'major' branch (lines 115-118)
bump_major(split_version) ==
    Returned(join(<<int(split_version[1]) + 1, 0, 0>>))

\* the 'minor' branch (lines 119-122): split_version[1] needs two components
bump_minor(split_version) ==
    IF Len(split_version) < 2
    THEN Raised("IndexError")
    ELSE Returned(join(<<int(split_version[1]),
                         int(split_version[2]) + 1, 0>>))

\* a patch bump that pads a two-component version with 0 before counting
bump_patch_pads_zero(split_version) ==
    IF Len(split_version) < 2
    THEN Raised("IndexError")
    ELSE IF Len(split_version) = 2
    THEN Returned(join(<<int(split_version[1]), int(split_version[2]), 0>>))
    ELSE Returned(join(<<int(split_version[1]), int(split_version[2]),
                         int(split_version[3]) + 1>>))

\* the last branch (lines 123-129), taken for 'patch'
bump_patch(split_version) ==
    IF Len(split_version) < 2
    THEN Raised("IndexError")
    ELSE IF Len(split_version) = 2
    THEN Returned(join(<<int(split_version[1]), int(split_version[2]), 1>>))
    ELSE Returned(join(<<int(split_version[1]), int(split_version[2]),
                         int(split_version[3]) + 1>>))

update_version(current_version, upgrade_type) ==
    LET split_version == split(current_version)
    IN  IF upgrade_type = MAJOR
        THEN bump_major(split_version)
        ELSE IF upgrade_type = MINOR
        THEN bump_minor(split_version)
        ELSE bump_patch(split_version)

(***************************************************************************)
(* The queries of the environment.                                         *)
(***************************************************************************)
\* get_git_branch(): git rev-parse --abbrev-ref HEAD
get_git_branch == branch

\* get_git_tags(remote): every line of the listing names refs/tags/<name>,
\* a peeled line with ^{} appended; the pattern refs/tags/([^^\n]+) keeps
\* <name>, and list(set(...)) drops the duplicates
get_git_tags(remote) ==
    {r.name : r \in IF remote THEN remote_refs ELSE local_refs}

\* is_git_clean(): git diff-index --quiet HEAD -- exits 0
is_git_clean == clean

\* read_version_setup_py(): python setup.py --version, which exits non-zero
\* (CalledProcessError) when there is no setup.py
read_version_setup_py ==
    IF setup_exists THEN Returned(declared) ELSE Raised("CalledProcessError")

(***************************************************************************)
(* update_version_setup_py: every line of setup.py that matches            *)
(* VERSION\s*= at its start is printed anew, every other line as it is.    *)
(***************************************************************************)
VERSION_KW == <<"V", "E", "R", "S", "I", "O", "N">>

IsSpace(c) == c \in {" ", "\t", "\n", "\r", "\f"}

\* re.match(r'VERSION\s*=', line)
version_line_re(line) ==
    /\ Len(line) > Len(VERSION_KW)
    /\ SubSeq(line, 1, Len(VERSION_KW)) = VERSION_KW
    /\ \E k \in (Len(VERSION_KW) + 1)..Len(line) :
           /\ line[k] = "="
           /\ \A x \in (Len(VERSION_KW) + 1)..(k - 1) : IsSpace(line[x])

\* f"VERSION = '{version}'  # maintained by release tool", with print's newline
version_line(v) ==
    VERSION_KW \o <<" ", "=", " ", "'">> \o v \o
    <<"'", " ", " ", "#", " ", "m", "a", "i", "n", "t", "a", "i", "n", "e", "d",
      " ", "b", "y", " ", "r", "e", "l", "e", "a", "s", "e", " ",
      "t", "o", "o", "l", "\n">>

update_version_setup_py(v) ==
    [file |-> [i \in 1..Len(setup_py) |->
                  IF version_line_re(setup_py[i])
                  THEN version_line(v) ELSE setup_py[i]],
     changed |-> \E i \in 1..Len(setup_py) : version_line_re(setup_py[i])]

(***************************************************************************)
(* run_checks: the first failing check's error, NoError when all pass.     *)
(***************************************************************************)
NoError == ""
E_BRANCH == "not on the branch"
E_DIRTY == "uncommited files"
E_LOCAL_TAG == "tag already exists locally"
E_REMOTE_TAG == "tag already exists remotely"
E_NO_SETUP == "missing setup.py file"
E_SAME_VERSION == "is already the current version"
E_UPDATE == "failed to update setup.py"
E_INVALID == "is not a valid version or semantic version upgrade type"
E_BUILD == "failed to build distribution"
E_CALLED == "CalledProcessError"

\* the checks with the working-tree check placed before the branch check
run_checks_clean_first(v, tag, only) ==
    IF ~is_git_clean
    THEN E_DIRTY
    ELSE IF only # None /\ only # "" /\ get_git_branch # only
    THEN E_BRANCH
    ELSE IF tag \in get_git_tags(FALSE)
    THEN E_LOCAL_TAG
    ELSE IF tag \in get_git_tags(TRUE)
    THEN E_REMOTE_TAG
    ELSE IF ~setup_exists
    THEN E_NO_SETUP
    ELSE IF v = read_version_setup_py.value
    THEN E_SAME_VERSION
    ELSE NoError

run_checks(v, tag, only) ==
    IF only # None /\ only # "" /\ get_git_branch # only
    THEN E_BRANCH
    ELSE IF ~is_git_clean
    THEN E_DIRTY
    ELSE IF tag \in get_git_tags(FALSE)
    THEN E_LOCAL_TAG
    ELSE IF tag \in get_git_tags(TRUE)
    THEN E_REMOTE_TAG
    ELSE IF ~setup_exists
    THEN E_NO_SETUP
    ELSE IF v = read_version_setup_py.value
    THEN E_SAME_VERSION
    ELSE NoError

(***************************************************************************)
(* The inputs of the model.                                                *)
(***************************************************************************)
\* every text of at most n characters of the alphabet A
Texts(A, n) == UNION {[1..k -> A] : k \in 0..n}

\* the components joined by dots
RECURSIVE dotted(_)
dotted(ps) ==
    IF Len(ps) = 1 THEN ps[1] ELSE ps[1] \o <<".">> \o dotted(Tail(ps))

\* the dotted numeric versions of 1..MaxParts components: the first three of
\* 1..MaxDigits digits each, the further ones of one digit
PartTexts == UNION {[1..k -> {"0", "9"}] : k \in 1..MaxDigits}
FurtherPartTexts == {<<"0">>, <<"9">>}
PartLists ==
    UNION {IF k <= 3
           THEN [1..k -> PartTexts]
           ELSE {h \o t : h \in [1..3 -> PartTexts],
                          t \in [1..(k - 3) -> FurtherPartTexts]}
           : k \in 1..MaxParts}
VersionTexts == {dotted(ps) : ps \in PartLists}

ArgAlphabet == {"v", "1", ".", "+", "x"}
Keywords == {MAJOR, MINOR, PATCH}

V_0_2 == <<"0", ".", "2">>
V_1 == <<"1">>
V_1_2 == <<"1", ".", "2">>
V_1_2_3 == <<"1", ".", "2", ".", "3">>
T_v1_2 == <<"v", "1", ".", "2">>
T_v0_2_1 == <<"v", "0", ".", "2", ".", "1">>

\* the arguments and environments of the flow specification
Args == Keywords \cup {V_1_2, T_v1_2, V_0_2, V_1_2 \o <<"+">>, <<"x">>}
DeclaredVersions == {V_0_2, V_1_2_3, V_1}
Branches == {"master", "dev"}
OnlyOn == {None, "", "master"}
Ref(name, peeled) == [name |-> name, peeled |-> peeled]
LocalRefSets == SUBSET {Ref(T_v1_2, FALSE), Ref(T_v0_2_1, FALSE)}
RemoteRefSets ==
    {{}, {Ref(T_v1_2, FALSE), Ref(T_v1_2, TRUE)}, {Ref(T_v0_2_1, FALSE)},
     {Ref(T_v1_2, FALSE), Ref(T_v1_2, TRUE), Ref(T_v0_2_1, FALSE)}}

L_IMPORT == <<"i", "m", "p", "o", "r", "t", " ", "x", "\n">>
L_SETUP == <<"s", "e", "t", "u", "p", "(", ")", "\n">>
L_VERSION_NOSPACE == VERSION_KW \o <<"=", "'", "1", "'", "\n">>
L_VERSION_EQ == VERSION_KW \o <<" ", "=", "=", " ", "x", "\n">>
L_VERSIONS == VERSION_KW \o <<"S", " ", "=", " ", "1", "\n">>
L_INDENTED == <<" ">> \o VERSION_KW \o <<" ", "=", " ", "1", "\n">>
L_LOWER == <<"v", "e", "r", "s", "i", "o", "n", " ", "=", " ", "1", "\n">>

SetupFiles ==
    {<<L_IMPORT, version_line(V_0_2), L_SETUP>>,
     <<L_IMPORT, L_LOWER, L_SETUP>>,
     <<L_VERSION_NOSPACE, L_IMPORT, version_line(V_0_2)>>}

DistFiles == {"sdist", "wheel", "stale"}
BuildStatuses == {0, 1}

(***************************************************************************)
(* create: resolution of the VERSION argument (lines 140-150).             *)
(***************************************************************************)
Step(name, ok) == [step |-> name, ok |-> ok]

Fail(e) == pc' = "error" /\ err' = e

ResolveVersion ==
    /\ pc = "create"
    /\ IF version_re(version)
       THEN /\ new_version' = lstrip_v(version)
            /\ tag_name' = <<"v">> \o version
            /\ pc' = "run_checks"
            /\ err' = err
       ELSE IF version \in {MAJOR, MINOR, PATCH}
       THEN IF read_version_setup_py.exc # ""
            THEN /\ Fail(read_version_setup_py.exc)
                 /\ UNCHANGED <<new_version, tag_name>>
            ELSE LET r == update_version(read_version_setup_py.value, version)
                 IN  IF r.exc # ""
                     THEN /\ Fail(r.exc)
                          /\ UNCHANGED <<new_version, tag_name>>
                     ELSE /\ new_version' = r.value
                          /\ tag_name' = <<"v">> \o r.value
                          /\ pc' = "run_checks"
                          /\ err' = err
       ELSE /\ Fail(E_INVALID)
            /\ UNCHANGED <<new_version, tag_name>>
    /\ UNCHANGED <<cmd, createVars, effects, gitVars, setup_exists, setup_py,
                   declared, uploadVars>>

(***************************************************************************)
(* create: run_checks (line 152).                                          *)
(***************************************************************************)
\* run_checks whose remote-tag collision is reported but does not abort
RunChecks_remote_tag_warns ==
    /\ pc = "run_checks"
    /\ LET e == run_checks(new_version, tag_name, only_on)
       IN  IF e = NoError \/ e = E_REMOTE_TAG
           THEN pc' = "run_release" /\ err' = err
           ELSE Fail(e)
    /\ UNCHANGED <<cmd, createVars, new_version, tag_name, effects, gitVars,
                   setup_exists, setup_py, declared, uploadVars>>

RunChecks ==
    /\ pc = "run_checks"
    /\ LET e == run_checks(new_version, tag_name, only_on)
       IN  IF e = NoError
           THEN pc' = "run_release" /\ err' = err
           ELSE Fail(e)
    /\ UNCHANGED <<cmd, createVars, new_version, tag_name, effects, gitVars,
                   setup_exists, setup_py, declared, uploadVars>>

(***************************************************************************)
(* create: run_release (lines 90-101), one action per statement that acts  *)
(* on the repository.  A command run with check=True that exits non-zero   *)
(* raises CalledProcessError, which ends the command.                      *)
(***************************************************************************)
UpdateSetupPy ==
    /\ pc = "run_release"
    /\ LET r == update_version_setup_py(new_version)
       IN  /\ setup_py' = r.file
           /\ clean' = (clean /\ r.file = setup_py)
           /\ effects' = Append(effects, Step("update setup.py", r.changed))
           /\ IF r.changed
              THEN pc' = "git_add" /\ err' = err
              ELSE Fail(E_UPDATE)
    /\ UNCHANGED <<cmd, createVars, new_version, tag_name, branch, local_refs,
                   remote_refs, setup_exists, declared, uploadVars>>

GitAdd ==
    /\ pc = "git_add"
    /\ \E ok \in BOOLEAN :
           /\ effects' = Append(effects, Step("git add", ok))
           /\ IF ok THEN pc' = "git_commit" /\ err' = err ELSE Fail(E_CALLED)
    /\ UNCHANGED <<cmd, createVars, new_version, tag_name, gitVars,
                   setup_exists, setup_py, declared, uploadVars>>

\* git commit run without check=True: its failure does not stop the release
GitCommit_unchecked ==
    /\ pc = "git_commit"
    /\ \E ok \in BOOLEAN :
           /\ effects' = Append(effects, Step("git commit", ok))
           /\ clean' = (clean \/ ok)
           /\ pc' = "git_tag"
           /\ err' = err
    /\ UNCHANGED <<cmd, createVars, new_version, tag_name, branch, local_refs,
                   remote_refs, setup_exists, setup_py, declared, uploadVars>>

GitCommit ==
    /\ pc = "git_commit"
    /\ \E ok \in BOOLEAN :
           /\ effects' = Append(effects, Step("git commit", ok))
           /\ clean' = (clean \/ ok)
           /\ IF ok THEN pc' = "git_tag" /\ err' = err ELSE Fail(E_CALLED)
    /\ UNCHANGED <<cmd, createVars, new_version, tag_name, branch, local_refs,
                   remote_refs, setup_exists, setup_py, declared, uploadVars>>

GitTag ==
    /\ pc = "git_tag"
    /\ \E ok \in BOOLEAN :
           /\ effects' = Append(effects, Step("git tag", ok))
           /\ local_refs' = IF ok THEN local_refs \cup {Ref(tag_name, FALSE)}
                                  ELSE local_refs
           /\ IF ok THEN pc' = "run_push" /\ err' = err ELSE Fail(E_CALLED)
    /\ UNCHANGED <<cmd, createVars, new_version, tag_name, branch, clean,
                   remote_refs, setup_exists, setup_py, declared, uploadVars>>

(***************************************************************************)
(* create: run_push (lines 104-109).                                       *)
(***************************************************************************)
RunPush ==
    /\ pc = "run_push"
    /\ IF push
       THEN \E ok \in BOOLEAN :
                /\ effects' = Append(effects, Step("git push", ok))
                /\ remote_refs' =
                       IF ok
                       THEN remote_refs \cup
                            {Ref(tag_name, FALSE), Ref(tag_name, TRUE)}
                       ELSE remote_refs
                /\ IF ok THEN pc' = "done" /\ err' = err ELSE Fail(E_CALLED)
       ELSE /\ effects' = Append(effects, Step("reminder", TRUE))
            /\ pc' = "done"
            /\ UNCHANGED <<err, remote_refs>>
    /\ UNCHANGED <<cmd, createVars, new_version, tag_name, branch, clean,
                   local_refs, setup_exists, setup_py, declared, uploadVars>>

(***************************************************************************)
(* upload (lines 157-183).                                                 *)
(***************************************************************************)
RmDist ==
    /\ pc = "upload"
    /\ \E ok \in BOOLEAN :
           /\ effects' = Append(effects, Step("rm dist", ok))
           /\ dist' = IF ok THEN {} ELSE dist
           /\ IF ok THEN pc' = "build" /\ err' = err ELSE Fail(E_CALLED)
    /\ UNCHANGED <<cmd, createVars, new_version, tag_name, gitVars,
                   setup_exists, setup_py, declared, dry_run>>

\* build_distributions that does not look at the build's exit status
BuildDistributions_ignores_status ==
    /\ pc = "build"
    /\ \E returncode \in BuildStatuses :
           /\ effects' = Append(effects, Step("build", returncode = 0))
           /\ dist' = IF returncode = 0 THEN {"sdist", "wheel"} ELSE dist
           /\ pc' = "twine"
           /\ err' = err
    /\ UNCHANGED <<cmd, createVars, new_version, tag_name, gitVars,
                   setup_exists, setup_py, declared, dry_run>>

BuildDistributions ==
    /\ pc = "build"
    /\ \E returncode \in BuildStatuses :
           /\ effects' = Append(effects, Step("build", returncode = 0))
           /\ dist' = IF returncode = 0 THEN {"sdist", "wheel"} ELSE dist
           /\ IF returncode # 0
              THEN Fail(E_BUILD)
              ELSE pc' = "twine" /\ err' = err
    /\ UNCHANGED <<cmd, createVars, new_version, tag_name, gitVars,
                   setup_exists, setup_py, declared, dry_run>>

TwineUpload ==
    /\ pc = "twine"
    /\ IF ~dry_run
       THEN \E ok \in BOOLEAN :
                /\ effects' = Append(effects, Step("twine upload", ok))
                /\ IF ok THEN pc' = "done" /\ err' = err ELSE Fail(E_CALLED)
       ELSE /\ effects' = Append(effects, Step("print not running", TRUE))
            /\ pc' = "done"
            /\ err' = err
    /\ UNCHANGED <<cmd, createVars, new_version, tag_name, gitVars,
                   setup_exists, setup_py, declared, uploadVars>>

(***************************************************************************)
(* The specifications.                                                     *)
(***************************************************************************)
\* the state before a command has done anything
Fresh ==
    /\ new_version = <<>>
    /\ tag_name = <<>>
    /\ err = NoError
    /\ effects = <<>>

NoUpload == dry_run = FALSE /\ dist = {}

\* main: either subcommand, in any of the environments
Init ==
    /\ Fresh
    /\ cmd \in {"create", "upload"}
    /\ pc = cmd
    /\ IF cmd = "create"
       THEN /\ version \in Args
            /\ push \in BOOLEAN
            /\ only_on \in OnlyOn
            /\ branch \in Branches
            /\ clean \in BOOLEAN
            /\ local_refs \in LocalRefSets
            /\ remote_refs \in RemoteRefSets
            /\ setup_exists \in BOOLEAN
            /\ setup_py \in IF setup_exists THEN SetupFiles ELSE {<<>>}
            /\ declared \in IF setup_exists THEN DeclaredVersions ELSE {<<>>}
            /\ NoUpload
       ELSE /\ version = <<>>
            /\ push = FALSE
            /\ only_on = None
            /\ branch = "master"
            /\ clean = TRUE
            /\ local_refs = {}
            /\ remote_refs = {}
            /\ setup_exists = TRUE
            /\ setup_py \in SetupFiles
            /\ declared = V_0_2
            /\ dry_run \in BOOLEAN
            /\ dist \in SUBSET DistFiles

Next ==
    \/ ResolveVersion
    \/ RunChecks
    \/ UpdateSetupPy
    \/ GitAdd
    \/ GitCommit
    \/ GitTag
    \/ RunPush
    \/ RmDist
    \/ BuildDistributions
    \/ TwineUpload

Spec == Init /\ [][Next]_vars

\* the resolution of the VERSION argument alone, over every short argument
\* and, for the upgrade types, every short declared version
InitResolve ==
    /\ Fresh
    /\ cmd = "create"
    /\ pc = "create"
    /\ \/ version \in Texts(ArgAlphabet, MaxArgLen) /\ declared = V_0_2
       \/ version \in Keywords /\ declared \in VersionTexts
    /\ push = FALSE
    /\ only_on = None
    /\ branch = "master"
    /\ clean = TRUE
    /\ local_refs = {}
    /\ remote_refs = {}
    /\ setup_exists = TRUE
    /\ setup_py = <<L_IMPORT, version_line(declared), L_SETUP>>
    /\ NoUpload

NextResolve == ResolveVersion

SpecResolve == InitResolve /\ [][NextResolve]_vars

\* the rewrite of setup.py alone, over every short file
RewriteLines ==
    {L_IMPORT, version_line(V_0_2), L_VERSION_NOSPACE, L_VERSION_EQ,
     L_VERSIONS, L_INDENTED, L_LOWER}

InitRewrite ==
    /\ cmd = "create"
    /\ pc = "run_release"
    /\ version \in {V_1_2, T_v1_2}
    /\ new_version = lstrip_v(version)
    /\ tag_name = <<"v">> \o version
    /\ err = NoError
    /\ effects = <<>>
    /\ push = FALSE
    /\ only_on = None
    /\ branch = "master"
    /\ clean = TRUE
    /\ local_refs = {}
    /\ remote_refs = {}
    /\ setup_exists = TRUE
    /\ setup_py \in UNION {[1..k -> RewriteLines] : k \in 0..MaxLines}
    /\ declared = V_0_2
    /\ NoUpload

NextRewrite == UpdateSetupPy

SpecRewrite == InitRewrite /\ [][NextRewrite]_vars

(***************************************************************************)
(* Properties of the resolution of the VERSION argument (SpecResolve).     *)
(***************************************************************************)
\* a dotted numeric version: an optional leading 'v', digits, '.', digits,
\* then any number of further groups of '.' and digits
IsNumber(p) == Len(p) > 0 /\ \A x \in 1..Len(p) : IsDigit(p[x])

IsDottedNumeric(s) ==
    LET body == IF Len(s) > 0 /\ s[1] = "v" THEN Tail(s) ELSE s
        parts == split(body)
    IN  Len(parts) >= 2 /\ \A x \in 1..Len(parts) : IsNumber(parts[x])

Resolved == pc = "run_checks"
Resolving == pc # "create"

\* component i of the declared version, 0 when it is absent
Part(i) ==
    LET parts == split(declared)
    IN  IF i <= Len(parts) THEN int(parts[i]) ELSE 0

\* C1: for every dotted numeric argument, with or without a leading 'v', the
\* resolved tag name is 'v' followed by the argument with its leading 'v'
\* stripped, that is 'v' followed by new_version.
C1_TagIsVThenNewVersion ==
    (Resolving /\ IsDottedNumeric(version)) =>
        /\ Resolved
        /\ new_version = lstrip_v(version)
        /\ tag_name = <<"v">> \o new_version

\* C4: a 'minor' bump of a declared version of one or more numeric
\* components, absent ones counting as 0, resolves to
\* (parts[0], parts[1] + 1, 0).
C4_MinorBump ==
    (Resolving /\ version = MINOR) =>
        /\ Resolved
        /\ new_version = join(<<Part(1), Part(2) + 1, 0>>)

\* C5: the explicit-version branch is taken exactly for the dotted numeric
\* arguments, and every other argument that is not an upgrade type fails
\* with the invalid-input error, with no side effect.
C5_ExplicitOnlyIfDottedNumeric ==
    (Resolving /\ version \notin Keywords) =>
        IF IsDottedNumeric(version)
        THEN Resolved /\ new_version = lstrip_v(version)
        ELSE pc = "error" /\ err = E_INVALID /\ effects = <<>>

\* C8: a 'patch' bump of a two-component declared version resolves to
\* (parts[0], parts[1], 1), of a version of three or more components to
\* (parts[0], parts[1], parts[2] + 1); the result has three components.
C8_PatchBump ==
    (Resolving /\ version = PATCH /\ Len(split(declared)) >= 2) =>
        /\ Resolved
        /\ new_version =
               IF Len(split(declared)) = 2
               THEN join(<<Part(1), Part(2), 1>>)
               ELSE join(<<Part(1), Part(2), Part(3) + 1>>)
        /\ Len(split(new_version)) = 3

\* a two-component version, 9.09, patched to 9.9.1
C8_Witness ==
    /\ Resolved
    /\ version = PATCH
    /\ declared = <<"9", ".", "0", "9">>
    /\ new_version = <<"9", ".", "9", ".", "1">>

\* C9: a 'major' bump of a declared version of any number of components
\* resolves to the three components (parts[0] + 1, 0, 0).
C9_MajorBump ==
    (Resolving /\ version = MAJOR) =>
        /\ Resolved
        /\ new_version = join(<<Part(1) + 1, 0, 0>>)
        /\ Len(split(new_version)) = 3

\* a four-component version, 99.9.0.9, bumped to 100.0.0
C9_Witness ==
    /\ Resolved
    /\ version = MAJOR
    /\ declared = <<"9", "9", ".", "9", ".", "0", ".", "9">>
    /\ new_version = <<"1", "0", "0", ".", "0", ".", "0">>

(***************************************************************************)
(* Properties of the create flow (Spec).                                   *)
(***************************************************************************)
\* the six preconditions of a release, as the environment decides them
Violated(n) ==
    CASE n = 1 -> only_on \notin {None, ""} /\ branch # only_on
      [] n = 2 -> ~clean
      [] n = 3 -> \E r \in local_refs : r.name = tag_name
      [] n = 4 -> \E r \in remote_refs : r.name = tag_name
      [] n = 5 -> ~setup_exists
      [] n = 6 -> setup_exists /\ new_version = declared

CheckErrors ==
    <<E_BRANCH, E_DIRTY, E_LOCAL_TAG, E_REMOTE_TAG, E_NO_SETUP, E_SAME_VERSION>>

AnyViolated == \E n \in 1..6 : Violated(n)

LowestViolated == CHOOSE n \in 1..6 : Violated(n) /\ \A m \in 1..(n - 1) : ~Violated(m)

NoEffect ==
    /\ effects' = <<>>
    /\ setup_py' = setup_py
    /\ UNCHANGED <<gitVars, setup_exists, dist>>

\* C2: when a precondition of run_checks is violated the flow ends with an
\* error and nothing has been done: setup.py is as it was, and no git add,
\* commit, tag or push has run, then or later.
C2_ViolationAbortsWithoutEffect ==
    [][/\ (pc = "run_checks" /\ AnyViolated) =>
              (pc' = "error" /\ err' # NoError /\ effects = <<>> /\ NoEffect)
       /\ pc = "error" => FALSE]_vars

\* a bump request stopped by a remote tag collision
C2_Witness ==
    /\ pc = "error"
    /\ version = PATCH
    /\ err = E_REMOTE_TAG
    /\ \E r \in remote_refs : r.name = tag_name
    /\ effects = <<>>

ReleaseSteps == <<"update setup.py", "git add", "git commit", "git tag">>

Ran(name) == \E i \in 1..Len(effects) : effects[i].step = name /\ effects[i].ok

\* C6: the release rewrites setup.py, stages it, commits, tags and then
\* pushes or reminds, in that order, each step only after every earlier one
\* succeeded; a failing step ends the flow with an error and undoes nothing.
C6_ReleaseIsSequential ==
    cmd = "create" =>
        /\ Len(effects) <= 5
        /\ \A i \in 1..Len(effects) :
               /\ i <= 4 => effects[i].step = ReleaseSteps[i]
               /\ i = 5 => effects[i].step = IF push THEN "git push" ELSE "reminder"
               /\ i > 1 => effects[i - 1].ok
               /\ ~effects[i].ok =>
                      /\ pc = "error"
                      /\ err = IF i = 1 THEN E_UPDATE ELSE E_CALLED
        /\ Len(effects) >= 1 =>
               /\ effects[1].ok =
                      (\E x \in 1..Len(setup_py) : setup_py[x] = version_line(new_version))
               /\ \A x \in 1..Len(setup_py) :
                      version_line_re(setup_py[x]) => setup_py[x] = version_line(new_version)
        /\ Ran("git tag") => Ref(tag_name, FALSE) \in local_refs

\* the commit failed after the rewrite: setup.py stays rewritten, no tag
C6_Witness ==
    /\ pc = "error"
    /\ err = E_CALLED
    /\ Len(effects) = 3
    /\ effects[3] = Step("git commit", FALSE)
    /\ \E x \in 1..Len(setup_py) : setup_py[x] = version_line(new_version)
    /\ ~clean
    /\ Ref(tag_name, FALSE) \notin local_refs

(***************************************************************************)
(* Properties of the rewrite of setup.py (SpecRewrite).                    *)
(***************************************************************************)
\* C7: the rewrite replaces the line declaring the version by the new
\* declaration and leaves every other line as it was and where it was, so
\* that the file differs in at most one line, and a change is reported
\* exactly when a line was replaced.
C7_RewriteChangesOneLine ==
    [][pc = "run_release" =>
          /\ Len(setup_py') = Len(setup_py)
          /\ Cardinality({i \in 1..Len(setup_py) : setup_py'[i] # setup_py[i]}) <= 1
          /\ \A i \in 1..Len(setup_py) :
                 setup_py'[i] # setup_py[i] => setup_py'[i] = version_line(new_version)
          /\ (pc' = "git_add") =
                 (\E i \in 1..Len(setup_py) : version_line_re(setup_py[i]))]_vars

(***************************************************************************)
(* Properties of the upload flow (Spec).                                   *)
(***************************************************************************)
\* C10: twine upload runs only after dist was removed and the build exited
\* with status 0, and only without --dry-run; a failed build ends the flow
\* with the build error; a dry run prints the command instead and ends
\* well; a failed upload ends the flow with an error.
C10_UploadOnlyAfterBuild ==
    cmd = "upload" =>
        /\ Len(effects) <= 3
        /\ \A i \in 1..Len(effects) :
               /\ i = 1 => effects[i].step = "rm dist"
               /\ i = 2 => effects[i].step = "build"
               /\ i = 3 => effects[i].step =
                               IF dry_run THEN "print not running" ELSE "twine upload"
               /\ i > 1 => effects[i - 1].ok
               /\ ~effects[i].ok =>
                      /\ pc = "error"
                      /\ err = IF i = 2 THEN E_BUILD ELSE E_CALLED
        /\ pc = "done" => (err = NoError /\ Len(effects) = 3 /\ effects[3].ok)
        /\ (pc = "done" /\ dry_run) => ~\E i \in 1..Len(effects) :
                                            effects[i].step = "twine upload"

\* a dry run after a successful build: the command is printed, not run
C10_Witness ==
    /\ cmd = "upload"
    /\ pc = "done"
    /\ dry_run
    /\ effects = <<Step("rm dist", TRUE), Step("build", TRUE),
                   Step("print not running", TRUE)>>
    /\ dist = {"sdist", "wheel"}

====
